---- MODULE Spec2Model ----
(***************************************************************************)
(* fasta_batch_submit.py: split a fasta file and a sample metadata table   *)
(* into numbered batch files, then post the batches to the VirusSeq API.   *)
(*                                                                         *)
(* One behaviour is a sequence of invocations of the script over one       *)
(* working directory.  The directory (disk) is the only state that         *)
(* survives an invocation; everything else is re-initialised by StartRun.  *)
(***************************************************************************)
EXTENDS Integers, Sequences, FiniteSets, TLC

\* ------------------------------------------------------------------ bounds
MaxId == 2          \* record identifiers are 1..MaxId (ordered like the id strings)
MaxRecords == 2     \* records in the input fasta file
MaxRows == 2        \* data rows in the input metadata file
MaxBatch == 2       \* options.batch ranges over 1..MaxBatch
MaxRuns == 2        \* invocations of the script in the rerun specification

VARIABLES
    limits,      \* sizes of the inputs and number of invocations explored
    disk,        \* working directory: file name -> file content
    run,         \* number of invocations started so far
    pc,          \* position of the current invocation in the script
    options,     \* parsed command line (line 64)
    metadata,    \* the metadata frame read at lines 69-75
    fasta,       \* the records parsed from options.fasta_file (line 108)
    batches,     \* `batches`: the names glob found (lines 97, 133), then the list of line 158
    idx,         \* position of the `for filename in batches` loop (line 160)
    exitStatus,  \* process exit status; -1 while the script runs
    exitCause,   \* which statement ended the process
    generation,  \* "none", "skipped", "ran" or "failed" (lines 100-133)
    disk0,       \* the directory as it was when the invocation started
    deleted,     \* names removed by the reset loop of this invocation (line 95)
    written,     \* names written by the generation loop of this invocation
    posts,       \* the POSTs of this invocation: <<fasta name, tabular name>>
    lastResp,    \* the response to the last POST of this invocation
    accepted     \* [file, run]: POSTs answered 200 with a submissionId, in the
                 \* invocations without -r since the last invocation with -r

vars == <<limits, disk, run, pc, options, metadata, fasta, batches, idx,
          exitStatus, exitCause, generation, disk0, deleted, written, posts,
          lastResp, accepted>>

\* ------------------------------------------------------------- file names
\* A file name is prefix + number + '.' + extension [+ '.' + submission id].
OutputPrefix == "output_"

BatchName(n, ext) == [stem |-> OutputPrefix, n |-> n, ext |-> ext, sid |-> ""]

TestFasta == [stem |-> "test", n |-> -1, ext |-> "fasta", sid |-> ""]

\* filename.replace('.fasta', '.tsv')
ReplaceFastaTsv(f) == [f EXCEPT !.ext = IF @ = "fasta" THEN "tsv" ELSE @]

\* filename + '.' + submission_id
WithSuffix(f, s) == [f EXCEPT !.sid = s]

\* glob.glob("./" + options.output_file + '*')
GlobPrefix(d) == {f \in DOMAIN d : f.stem = OutputPrefix}

\* glob.glob("./" + options.output_file + '*.fasta').  glob returns the names
\* as a list in directory order, which is unspecified; the script reads only
\* the length of that list (line 100), so it is kept as the set of its names.
GlobFasta(d) == {f \in DOMAIN d : f.stem = OutputPrefix /\ f.ext = "fasta" /\ f.sid = ""}

Range(s) == {s[i] : i \in DOMAIN s}

BoundedSeq(S, n) == UNION {[1..k -> S] : k \in 0..n}

Ids == 1..MaxId

\* a metadata frame: one row per line of the table, `key` the value in the
\* key column and `val` the rest of the line (here: its line number)
Frame(keys) == [i \in DOMAIN keys |-> [key |-> keys[i], val |-> i]]

\* ---------------------------------------------------------- partitioning
\* sorted(data, key=lambda x : x.id): a stable sort, ascending by identifier
RECURSIVE InsertById(_, _)
InsertById(x, s) ==
    IF s = <<>> THEN <<x>>
    ELSE IF x < s[Len(s)] THEN Append(InsertById(x, SubSeq(s, 1, Len(s) - 1)), s[Len(s)])
    ELSE Append(s, x)

RECURSIVE SortById(_)
SortById(s) ==
    IF s = <<>> THEN <<>>
    ELSE InsertById(s[Len(s)], SortById(SubSeq(s, 1, Len(s) - 1)))

\* the section count handed to np.array_split: len(data)/options.batch, which
\* numpy truncates with int()
Sections(n, b) == n \div b

\* np.array_split(ary, k): k sections, the first len % k of them one longer
ArraySplit(s, k) ==
    LET each == Len(s) \div k
        extras == Len(s) % k
        start(i) == (i - 1) * each + (IF i - 1 < extras THEN i - 1 ELSE extras)
        size(i) == IF i <= extras THEN each + 1 ELSE each
    IN  [i \in 1..k |-> SubSeq(s, start(i) + 1, start(i) + size(i))]

RECURSIVE InsertByKey(_, _)
InsertByKey(row, md) ==
    IF md = <<>> THEN <<row>>
    ELSE IF row.key < md[Len(md)].key
         THEN Append(InsertByKey(row, SubSeq(md, 1, Len(md) - 1)), md[Len(md)])
    ELSE Append(md, row)

\* sort_values(..., inplace=True): the frame itself is put in key order
RECURSIVE SortValuesInPlace(_)
SortValuesInPlace(md) ==
    IF md = <<>> THEN <<>>
    ELSE InsertByKey(md[Len(md)], SortValuesInPlace(SubSeq(md, 1, Len(md) - 1)))

\* metadata.sort_values(by = options.key_field): returns a sorted copy, which
\* the script drops; the frame itself keeps the order of the file
SortValues(md) == md

\* metadata.loc[metadata[options.key_field].isin(id_index)]
Metabatch(md, id_index) == SelectSeq(md, LAMBDA row : row.key \in Range(id_index))

\* 'csv' when options.csv_file is set, else 'tsv' (lines 123-127)
TabularExt(o) == IF o.meta = "csv" THEN "csv" ELSE "tsv"

\* the files the generation loop writes for the chunks `data`
BatchFiles(data, md, o) ==
    [f \in {BatchName(c - 1, e) : c \in DOMAIN data, e \in {TabularExt(o), "fasta"}} |->
        IF f.ext = "fasta" THEN data[f.n + 1] ELSE Metabatch(md, data[f.n + 1])]

\* writing files into the directory: same names are overwritten
WriteAll(d, files) ==
    [f \in DOMAIN d \cup DOMAIN files |-> IF f \in DOMAIN files THEN files[f] ELSE d[f]]

\* os.remove of every name in S
RemoveAll(d, S) == [f \in DOMAIN d \ S |-> d[f]]

\* ------------------------------------------------------------ command line
ApiTargets == {"VirusSeq_Portal", "Other_Portal", ""}

Options ==
    [fasta_file : BOOLEAN,            \* -f given
     meta : {"csv", "tsv", "none"},   \* -c given, else -t given, else neither
     key_field : BOOLEAN,             \* options.key_field in metadata.columns
     batch : 1..MaxBatch,
     api : ApiTargets,
     api_token : BOOLEAN,             \* -u given
     reset : BOOLEAN]                 \* -r given

NoOptions ==
    [fasta_file |-> FALSE, meta |-> "none", key_field |-> FALSE, batch |-> 1,
     api |-> "", api_token |-> FALSE, reset |-> FALSE]

\* the checks of lines 66-78 alone, without the look-up of the key column
InputErrorKeyUnchecked(o) ==
    IF ~o.fasta_file THEN 67
    ELSE IF o.meta = "none" THEN 78
    ELSE 0

\* the line of the sys.exit that the checks of lines 66-87 reach, 0 if none
InputError(o) ==
    IF ~o.fasta_file THEN 67
    ELSE IF o.meta = "none" THEN 78
    ELSE IF ~o.key_field THEN 87
    ELSE 0

\* generation that never looks at the existing batch files
SkipGenerationNever(b) == FALSE

\* `if len(batches) > 0` (line 100)
SkipGeneration(b) == Cardinality(b) > 0

\* `batches = ['test.fasta']` (line 158)
TestingBatches == <<TestFasta>>

\* ---------------------------------------------------------- HTTP responses
\* code: status code; json: the body parses as JSON; sid: the body's
\* 'submissionId' ("" when absent); keys: the body has 'status', 'message' and
\* 'errorInfo'; detail: errorInfo holds the entries the matching branch prints
Resp(code, json, sid, keys, status, message, detail) ==
    [code |-> code, json |-> json, sid |-> sid, keys |-> keys, status |-> status,
     message |-> message, detail |-> detail]

NoResp == Resp(0, FALSE, "", FALSE, "", "", FALSE)

HeadersIncorrect == "Headers are incorrect!"
InvalidFields == "Found records with invalid fields"
FluxLast == "Flux#last() didn't observe any onNext signal"

\* the bodies of error responses that the branches of lines 187-231 tell apart
ErrorBodies ==
    {Resp(0, TRUE, "", TRUE, "BAD_REQUEST", msg, d) :
        msg \in {HeadersIncorrect, InvalidFields}, d \in BOOLEAN}
    \cup {Resp(0, TRUE, "", TRUE, st, FluxLast, TRUE) :
        st \in {"BAD_REQUEST", "FORBIDDEN", "INTERNAL_SERVER_ERROR"}}
    \cup {Resp(0, TRUE, "", FALSE, "", "", FALSE), Resp(0, FALSE, "", FALSE, "", "", FALSE)}

Responses ==
    {Resp(200, TRUE, "abc123", FALSE, "", "", FALSE),
     Resp(200, TRUE, "", FALSE, "", "", FALSE),
     Resp(200, FALSE, "", FALSE, "", "", FALSE),
     Resp(401, FALSE, "", FALSE, "", "", FALSE)}
    \cup {[b EXCEPT !.code = 400] : b \in ErrorBodies}
    \cup {[b EXCEPT !.code = c] :
            b \in {e \in ErrorBodies : e.status \in {"INTERNAL_SERVER_ERROR", ""}},
            c \in {500, 503}}

Outcome(kind, line) == [kind |-> kind, line |-> line]

\* What lines 169-231 do with a response: "continue" with the next filename,
\* "exit" through sys.exit, or "raise" an exception nothing catches.

\* lines 169-179
Handle200(r) ==
    IF ~r.json THEN Outcome("raise", 170)           \* request.json() fails
    ELSE IF r.sid # "" THEN Outcome("raise", 172)   \* request['submissionId']: a Response has no items
    ELSE Outcome("exit", 179)

\* lines 183-185
Handle401Continues(r) == Outcome("continue", 185)

Handle401(r) == Outcome("exit", 185)

\* lines 187-231
HandleError(r) ==
    IF ~r.json THEN Outcome("raise", 187)           \* request.json() fails
    ELSE IF ~r.keys THEN Outcome("raise", 188)      \* KeyError
    ELSE IF r.code = 400 /\ r.status = "BAD_REQUEST" /\ r.message = HeadersIncorrect THEN
        IF r.detail THEN Outcome("exit", 203) ELSE Outcome("raise", 201)
    ELSE IF r.code = 400 /\ r.status = "BAD_REQUEST" /\ r.message = InvalidFields THEN
        IF r.detail THEN Outcome("continue", 215) ELSE Outcome("raise", 210)
    ELSE IF r.code = 400 /\ r.status = "FORBIDDEN" THEN Outcome("exit", 220)
    ELSE IF r.code = 500 THEN Outcome("continue", 228)
    ELSE Outcome("continue", 231)

HandleResponse(r) ==
    IF r.code = 200 THEN Handle200(r)
    ELSE IF r.code = 401 THEN Handle401(r)
    ELSE HandleError(r)

\* sys.exit with a message or with 1, and an uncaught exception, end the
\* process with status 1; running off the end of the script ends it with 0
ExitCode(kind) == IF kind = "end" THEN 0 ELSE 1

\* ------------------------------------------------------------------- state
\* The directory before the first invocation: empty, holding the operator's
\* test.fasta (with or without test.tsv), or holding the pair an earlier
\* invocation wrote for the records 1, 2 and the rows keyed 2, 1.
LeftOver ==
    BatchFiles(ArraySplit(SortById(<<2, 1>>), Sections(2, 2)), Frame(<<2, 1>>),
               [NoOptions EXCEPT !.meta = "tsv"])

InitialDisks ==
    {[f \in S |-> <<>>] : S \in {{}, {TestFasta}, {TestFasta, ReplaceFastaTsv(TestFasta)}}}
    \cup {LeftOver}

InitWith(l) ==
    /\ limits = l
    /\ disk \in InitialDisks
    /\ run = 0
    /\ pc = "idle"
    /\ options = NoOptions
    /\ metadata = <<>>
    /\ fasta = <<>>
    /\ batches = {}
    /\ idx = 0
    /\ exitStatus = -1
    /\ exitCause = Outcome("none", 0)
    /\ generation = "none"
    /\ disk0 = disk
    /\ deleted = {}
    /\ written = {}
    /\ posts = <<>>
    /\ lastResp = NoResp
    /\ accepted = {}

Init == InitWith([records |-> MaxRecords, rows |-> MaxRows, runs |-> 1])

\* repeated invocations, each over a fasta file of at most one record and a
\* metadata file of at most one row
InitRerun == InitWith([records |-> 1, rows |-> 1, runs |-> MaxRuns])

\* the process ends: by sys.exit ("exit"), by an exception ("raise") or by
\* reaching the end of the script ("end")
Terminate(kind, line) ==
    /\ pc' = "done"
    /\ exitCause' = Outcome(kind, line)
    /\ exitStatus' = ExitCode(kind)

\* ----------------------------------------------------------------- actions
\* The script is started: the command line is parsed (lines 43-64).
StartRun ==
    /\ pc = "idle"
    /\ run < limits.runs
    /\ \E o \in Options : options' = o
    /\ run' = run + 1
    /\ pc' = "validate"
    /\ accepted' = IF options'.reset THEN {} ELSE accepted
    /\ UNCHANGED <<limits, disk, metadata, fasta, batches, idx, exitStatus, exitCause,
                   generation, disk0, deleted, written, posts, lastResp>>

\* Lines 66-87, a required option is missing: sys.exit.  The metadata file is
\* read (lines 69-75) before the key column is looked up.
RejectInputs ==
    /\ pc = "validate"
    /\ InputError(options) # 0
    /\ IF InputError(options) = 87
       THEN \E keys \in BoundedSeq(Ids, limits.rows) : metadata' = Frame(keys)
       ELSE metadata' = metadata
    /\ Terminate("exit", InputError(options))
    /\ UNCHANGED <<limits, disk, run, options, fasta, batches, idx, generation, disk0,
                   deleted, written, posts, lastResp, accepted>>

\* Lines 66-89, the options pass: the metadata frame is read.
AcceptInputs ==
    /\ pc = "validate"
    /\ InputError(options) = 0
    /\ \E keys \in BoundedSeq(Ids, limits.rows) : metadata' = Frame(keys)
    /\ pc' = "reset"
    /\ UNCHANGED <<limits, disk, run, options, fasta, batches, idx, exitStatus, exitCause,
                   generation, disk0, deleted, written, posts, lastResp, accepted>>

\* Lines 92-95: with -r every file under the output prefix is removed.
Reset ==
    /\ pc = "reset"
    /\ IF options.reset
       THEN /\ disk' = RemoveAll(disk, GlobPrefix(disk))
            /\ deleted' = GlobPrefix(disk)
       ELSE UNCHANGED <<disk, deleted>>
    /\ pc' = "generate"
    /\ UNCHANGED <<limits, run, options, metadata, fasta, batches, idx, exitStatus,
                   exitCause, generation, disk0, written, posts, lastResp, accepted>>

\* Lines 97-101: batch files exist, generation is skipped.
SkipBatches ==
    /\ pc = "generate"
    /\ SkipGeneration(GlobFasta(disk))
    /\ batches' = GlobFasta(disk)
    /\ generation' = "skipped"
    /\ pc' = "api"
    /\ UNCHANGED <<limits, disk, run, options, metadata, fasta, idx, exitStatus, exitCause,
                   disk0, deleted, written, posts, lastResp, accepted>>

\* Lines 97-133: the fasta file is read, sorted, split and written out with
\* the matching metadata rows; `batches` is refreshed.
GenerateBatches ==
    /\ pc = "generate"
    /\ ~SkipGeneration(GlobFasta(disk))
    /\ \E records \in BoundedSeq(Ids, limits.records) :
        /\ fasta' = records
        /\ Sections(Len(records), options.batch) > 0
        /\ LET data == ArraySplit(SortById(records), Sections(Len(records), options.batch))
               files == BatchFiles(data, SortValues(metadata), options)
           IN  /\ disk' = WriteAll(disk, files)
               /\ written' = DOMAIN files
    /\ batches' = GlobFasta(disk')
    /\ generation' = "ran"
    /\ pc' = "api"
    /\ UNCHANGED <<limits, run, options, metadata, idx, exitStatus, exitCause, disk0,
                   deleted, posts, lastResp, accepted>>

\* Line 114 with fewer records than options.batch: np.array_split is asked
\* for 0 sections and raises ValueError before any file is written.
GenerateFails ==
    /\ pc = "generate"
    /\ ~SkipGeneration(GlobFasta(disk))
    /\ \E records \in BoundedSeq(Ids, limits.records) :
        /\ fasta' = records
        /\ Sections(Len(records), options.batch) <= 0
    /\ generation' = "failed"
    /\ Terminate("raise", 114)
    /\ UNCHANGED <<limits, disk, run, options, metadata, batches, idx, disk0, deleted,
                   written, posts, lastResp, accepted>>

\* Line 145 with an empty -a, or a target other than VirusSeq_Portal (line
\* 152) with a token: nothing is uploaded and the script ends.
NoUpload ==
    /\ pc = "api"
    /\ options.api = "" \/ (options.api_token /\ options.api # "VirusSeq_Portal")
    /\ Terminate("end", 231)
    /\ UNCHANGED <<limits, disk, run, options, metadata, fasta, batches, idx, generation,
                   disk0, deleted, written, posts, lastResp, accepted>>

\* Lines 145-148: an API target without a token: sys.exit.
MissingToken ==
    /\ pc = "api"
    /\ options.api # ""
    /\ ~options.api_token
    /\ Terminate("exit", 148)
    /\ UNCHANGED <<limits, disk, run, options, metadata, fasta, batches, idx, generation,
                   disk0, deleted, written, posts, lastResp, accepted>>

\* Lines 152-160: the upload loop is entered over the list of line 158.
EnterLoop ==
    /\ pc = "api"
    /\ options.api = "VirusSeq_Portal"
    /\ options.api_token
    /\ batches' = TestingBatches
    /\ idx' = 1
    /\ IF Len(batches') = 0
       THEN Terminate("end", 231)
       ELSE pc' = "loop" /\ UNCHANGED <<exitStatus, exitCause>>
    /\ UNCHANGED <<limits, disk, run, options, metadata, fasta, generation, disk0,
                   deleted, written, posts, lastResp, accepted>>

\* Lines 161-165: one of the two files of the batch cannot be opened.
OpenFails ==
    /\ pc = "loop"
    /\ LET filename == batches[idx]
           filename_tsv == ReplaceFastaTsv(filename)
       IN  (filename \notin DOMAIN disk \/ filename_tsv \notin DOMAIN disk)
    /\ Terminate("raise", 163)
    /\ UNCHANGED <<limits, disk, run, options, metadata, fasta, batches, idx, generation,
                   disk0, deleted, written, posts, lastResp, accepted>>

\* Lines 161-231: one pass of the loop: the two files are posted and the
\* response is handled.
SubmitBatch ==
    /\ pc = "loop"
    /\ LET filename == batches[idx]
           filename_tsv == ReplaceFastaTsv(filename)
       IN  /\ filename \in DOMAIN disk
           /\ filename_tsv \in DOMAIN disk
           /\ posts' = Append(posts, <<filename, filename_tsv>>)
           /\ \E r \in Responses :
                /\ lastResp' = r
                /\ accepted' = IF r.code = 200 /\ r.json /\ r.sid # "" /\ ~options.reset
                               THEN accepted \cup {[file |-> filename, run |-> run]}
                               ELSE accepted
                /\ LET out == HandleResponse(r)
                   IN  IF out.kind = "continue"
                       THEN IF idx < Len(batches)
                            THEN /\ idx' = idx + 1
                                 /\ UNCHANGED <<pc, exitStatus, exitCause>>
                            ELSE /\ idx' = idx
                                 /\ Terminate("end", 231)
                       ELSE /\ idx' = idx
                            /\ Terminate(out.kind, out.line)
    /\ UNCHANGED <<limits, disk, run, options, metadata, fasta, batches, generation,
                   disk0, deleted, written>>

\* The process is gone: of its state only the directory is left.
ProcessEnds ==
    /\ pc = "done"
    /\ pc' = "idle"
    /\ options' = NoOptions
    /\ metadata' = <<>>
    /\ fasta' = <<>>
    /\ batches' = {}
    /\ idx' = 0
    /\ exitStatus' = -1
    /\ exitCause' = Outcome("none", 0)
    /\ generation' = "none"
    /\ disk0' = disk
    /\ deleted' = {}
    /\ written' = {}
    /\ posts' = <<>>
    /\ lastResp' = NoResp
    /\ UNCHANGED <<limits, disk, run, accepted>>

Next ==
    \/ StartRun
    \/ ProcessEnds
    \/ RejectInputs
    \/ AcceptInputs
    \/ Reset
    \/ SkipBatches
    \/ GenerateBatches
    \/ GenerateFails
    \/ NoUpload
    \/ MissingToken
    \/ EnterLoop
    \/ OpenFails
    \/ SubmitBatch

\* one invocation of the script in a directory without batch files
Spec == Init /\ [][Next]_vars

\* up to MaxRuns invocations, one after the other, in the same directory
SpecRerun == InitRerun /\ [][Next]_vars

\* ------------------------------------------------------------- properties
Ceil(n, b) == (n + b - 1) \div b

Count(s, x) == Cardinality({i \in DOMAIN s : s[i] = x})

Ascending(s) == \A i, j \in DOMAIN s : i < j => s[i] <= s[j]

GenerationRan == generation \in {"ran", "failed"}

WrittenFasta == {f \in written : f.ext = "fasta"}

WrittenTabular == {f \in written : f.ext # "fasta"}

\* the sequence batches 0 .. k-1 on disk, one after the other
RECURSIVE ConcatBatches(_)
ConcatBatches(k) ==
    IF k = 0 THEN <<>>
    ELSE ConcatBatches(k - 1) \o
         (IF BatchName(k - 1, "fasta") \in DOMAIN disk THEN disk[BatchName(k - 1, "fasta")] ELSE <<>>)

\* C1 (as claimed): when generation runs on N >= 1 records with batch size
\* B >= 1 it completes, writes exactly ceil(N/B) sequence batches, and no
\* batch holds more than B records.
C1_CeilBatches ==
    (GenerationRan /\ Len(fasta) >= 1) =>
        /\ generation = "ran"
        /\ Cardinality(WrittenFasta) = Ceil(Len(fasta), options.batch)
        /\ \A f \in WrittenFasta : Len(disk[f]) <= options.batch

\* C2 (as claimed): whenever generation runs, the sequence batch files are
\* numbered 0 .. k-1 without a gap and, read in index order, they are the
\* input records in ascending identifier order, each record exactly once.
C2_ContiguousCover ==
    GenerationRan =>
        LET k == Cardinality(WrittenFasta)
            all == ConcatBatches(k)
        IN  /\ WrittenFasta = {BatchName(n, "fasta") : n \in 0..(k - 1)}
            /\ Ascending(all)
            /\ \A x \in Ids : Count(all, x) = Count(fasta, x)

C4_NoRepost ==
    \A i \in DOMAIN posts : \A a \in accepted : a.file = posts[i][1] => a.run = run

HasBatchPair(d) == \E f \in DOMAIN d : f.stem = OutputPrefix /\ f.ext = "fasta"

Accepted200(r) == r.code = 200 /\ r.json /\ r.sid # ""

\* C6 (as claimed): after a 200 response with submission identifier S both
\* files of the batch carry the suffix '.S', neither original name is left,
\* and the run has not been terminated.
C6_RenamedOnSuccess ==
    Accepted200(lastResp) =>
        LET p == posts[Len(posts)]
        IN  /\ WithSuffix(p[1], lastResp.sid) \in DOMAIN disk
            /\ WithSuffix(p[2], lastResp.sid) \in DOMAIN disk
            /\ p[1] \notin DOMAIN disk
            /\ p[2] \notin DOMAIN disk
            /\ exitCause.kind \notin {"exit", "raise"}

GlobalFailure(r) ==
    \/ r.code = 401
    \/ r.code = 400 /\ r.json /\ r.keys /\ r.status = "BAD_REQUEST" /\ r.message = HeadersIncorrect
    \/ r.code = 400 /\ r.json /\ r.keys /\ r.status = "FORBIDDEN"
    \/ r.code = 200 /\ r.sid = ""

\* C7: after a global failure the run is over with a non-zero exit status, no
\* POST followed the failing one, and the failing batch and the batches after
\* it are on disk under their own names, no file carrying a suffix.
C7_GlobalFailureStops ==
    GlobalFailure(lastResp) =>
        /\ pc = "done"
        /\ exitStatus # 0
        /\ Len(posts) = idx
        /\ posts[idx] = <<batches[idx], ReplaceFastaTsv(batches[idx])>>
        /\ \A i \in 1..2 : posts[idx][i] \in DOMAIN disk
        /\ \A j \in idx..Len(batches) : \A f \in DOMAIN disk :
            f.sid # "" => WithSuffix(f, "") \notin {batches[j], ReplaceFastaTsv(batches[j])}

\* C7 witness: the run ended on a 401 answer to its POST.
C7_Witness ==
    /\ pc = "done"
    /\ lastResp.code = 401
    /\ Len(posts) = 1
    /\ exitCause = Outcome("exit", 185)

PerBatchFailure(r) ==
    \/ r.code = 400 /\ r.json /\ r.keys /\ r.status = "BAD_REQUEST" /\ r.message = InvalidFields
    \/ r.code = 500
    \/ r.code \notin {0, 200, 400, 401, 500}

\* C8 (as claimed): after a per-batch or unclassified failure, whatever the
\* body, the run is not terminated (it goes on, or ends normally when the
\* batch was the last) and the two files keep their names.
C8_PerBatchContinues ==
    PerBatchFailure(lastResp) =>
        /\ exitCause.kind \notin {"exit", "raise"}
        /\ exitStatus \in {-1, 0}
        /\ \A i \in 1..2 : posts[Len(posts)][i] \in DOMAIN disk

IsPendingPair(p, d) ==
    \E f \in GlobFasta(d) : \E e \in {"csv", "tsv"} :
        /\ p = <<f, BatchName(f.n, e)>>
        /\ p[2] \in DOMAIN d

\* C9 (as claimed): every POST carries the sequence file and the tabular file
\* of one pending pair, the pairs are posted in ascending order without
\* repetition, and a run that reaches its end has posted every pending pair.
C9_PostsPendingPairs ==
    /\ \A i \in DOMAIN posts : IsPendingPair(posts[i], disk)
    /\ \A i, j \in DOMAIN posts : i < j => posts[i][1].n < posts[j][1].n
    /\ (pc = "done" /\ exitCause.kind = "end" /\ options.api = "VirusSeq_Portal"
            /\ options.api_token)
        => {posts[i][1] : i \in DOMAIN posts} = GlobFasta(disk)

InputsRejected(o) == ~o.fasta_file \/ o.meta = "none" \/ ~o.key_field

TokenMissing(o) == o.api # "" /\ ~o.api_token

NoBatchWork == deleted = {} /\ written = {} /\ posts = <<>>

\* C10 (as claimed): every configuration error, the missing credential
\* included, ends the run with a non-zero status before reset has deleted a
\* file, a batch file has been written or a POST has been issued.
C10_ConfigBeforeWork ==
    (pc = "done" /\ (InputsRejected(options) \/ TokenMissing(options))) =>
        exitStatus # 0 /\ NoBatchWork

\* C10 (amended): a missing fasta option, a missing metadata option and a key
\* field that is no column end the run with a non-zero status before any
\* batch work; a missing credential ends it with a non-zero status before any
\* POST, after reset and generation have run.
C10_ConfigAmended ==
    /\ InputsRejected(options) => NoBatchWork /\ (pc = "done" => exitStatus # 0)
    /\ TokenMissing(options) => posts = <<>> /\ (pc = "done" => exitStatus # 0)

\* C10 witness: the run ended on the missing token after it had removed the
\* old batch files and written new ones.
C10_Witness ==
    /\ pc = "done"
    /\ exitCause = Outcome("exit", 148)
    /\ TokenMissing(options)
    /\ deleted # {}
    /\ written # {}

====
